---------------------------- MODULE Spec2Model ----------------------------
(***************************************************************************)
(* Route-Configuration-Manager: the configuration document edited by       *)
(* Home.py (the "apply changes" handler) and renumbered by the bulk page   *)
(* "Modifier plage routes bulk.py", the from-scratch session of app9.py    *)
(* and the manual creation session of "Creation configuration.py".         *)
(*                                                                         *)
(* Representation.  Route names, zone names, postal codes and the          *)
(* admissibleRoutePatterns value are strings, formatted and parsed         *)
(* character by character as the code's f-strings and regular expressions  *)
(* do.  A comma/semicolon separated reference field (adjacentRoutes, a     *)
(* node label) is the sequence of its tokens.  A "zip" field is the set of *)
(* its upper-cased codes.  A geometry is the set of postal areas (cells)   *)
(* it covers: the boundary of code c is the cell {c}, a union of           *)
(* boundaries is the union of the cells, and the empty set stands for "no  *)
(* polygonal geometry" (None, an empty frame, an unparsable payload).      *)
(***************************************************************************)
EXTENDS Integers, Sequences, FiniteSets, TLC

VARIABLES
    data,           \* the configuration document (Home.py:29, bulk page:23)
    last,           \* the last handler run: its inputs and what it reported
    cycles,         \* load -> mutate -> save cycles done on the document
    routes,         \* st.session_state.routes of app9.py
    used_nums,      \* st.session_state.used_nums of app9.py
    created,        \* app9.py: the inputs and the number of the last add_route
    json_data,      \* app9.py: the structure built by the last generation
    generated,      \* app9.py: the last run of the generation handler
    manual_routes,  \* st.session_state.routes of Creation configuration.py
    manual_last,    \* Creation configuration.py: the last add_route_form run
    reshaped,       \* Restructuration par FSA.py: the last recomputation
    codec,          \* a geometry, its polygonCoordinates text and the text parsed
    normalized,     \* a merged geometry and what normalize_geom returned for it
    config          \* Creation configuration.py: the final configuration

vars == <<data, last, cycles, routes, used_nums, created, json_data, generated,
          manual_routes, manual_last, reshaped, codec, normalized, config>>

docVars == <<data, last, cycles>>
scratchVars == <<routes, used_nums, created, json_data, generated>>
manualVars == <<manual_routes, manual_last, config>>
reshapeVars == <<reshaped>>
codecVars == <<codec>>
normVars == <<normalized>>

(***************************************************************************)
(* Bounds of the model.                                                    *)
(***************************************************************************)
\* load -> mutate -> save cycles applied to one document
MaxCycles == 2
\* add_route clicks in one from-scratch session
MaxCreated == 3
\* add_route_form submissions accepted in one manual session
MaxManual == 3
\* a coordinate is a whole number of units of 10^-UnitDecimals degree
UnitDecimals == 13

(***************************************************************************)
(* Strings: characters, digits, integer parsing (int(...)), str.split.     *)
(***************************************************************************)
Digits == {"0", "1", "2", "3", "4", "5", "6", "7", "8", "9"}

UpperLetters ==
    {"A", "B", "C", "D", "E", "F", "G", "H", "I", "J", "K", "L", "M",
     "N", "O", "P", "Q", "R", "S", "T", "U", "V", "W", "X", "Y", "Z"}

CharAt(s, i) == SubSeq(s, i, i)

AllIn(s, S) == \A i \in 1..Len(s) : CharAt(s, i) \in S

DigitVal(c) ==
    CASE c = "0" -> 0 [] c = "1" -> 1 [] c = "2" -> 2 [] c = "3" -> 3
      [] c = "4" -> 4 [] c = "5" -> 5 [] c = "6" -> 6 [] c = "7" -> 7
      [] c = "8" -> 8 [] c = "9" -> 9

RECURSIVE ToInt(_)
ToInt(s) ==
    IF Len(s) = 0 THEN 0
    ELSE 10 * ToInt(SubSeq(s, 1, Len(s) - 1)) + DigitVal(CharAt(s, Len(s)))

\* the length of the longest run of digits s starts with (a greedy \d+)
LeadingDigits(s) ==
    CHOOSE k \in 0..Len(s) :
        /\ AllIn(SubSeq(s, 1, k), Digits)
        /\ (k < Len(s) => CharAt(s, k + 1) \notin Digits)

\* the position of the first "|" of s, 0 when there is none
FirstBar(s) ==
    IF \E i \in 1..Len(s) : CharAt(s, i) = "|"
    THEN CHOOSE i \in 1..Len(s) :
            /\ CharAt(s, i) = "|"
            /\ \A j \in 1..(i - 1) : CharAt(s, j) # "|"
    ELSE 0


(***************************************************************************)
(* admissibleRoutePatterns, "PREFIX|MIN|MAX", as                           *)
(* re.match(r"([A-Z]+)\|(\d+)\|(\d+)", ...) reads it: the match is         *)
(* anchored at the start only, so text after the third number is ignored.  *)
(***************************************************************************)
AfterBar(s) == SubSeq(s, FirstBar(s) + 1, Len(s))

PatternPrefixText(s) == SubSeq(s, 1, FirstBar(s) - 1)

PatternMinText(s) == SubSeq(AfterBar(s), 1, FirstBar(AfterBar(s)) - 1)

PatternMaxText(s) ==
    SubSeq(AfterBar(AfterBar(s)), 1, LeadingDigits(AfterBar(AfterBar(s))))

PatternMatches(s) ==
    /\ FirstBar(s) > 1
    /\ AllIn(PatternPrefixText(s), UpperLetters)
    /\ FirstBar(AfterBar(s)) > 1
    /\ AllIn(PatternMinText(s), Digits)
    /\ LeadingDigits(AfterBar(AfterBar(s))) >= 1

\* prefix, min_route, max_route = match.groups(); int(min_route), int(max_route)
prefix == PatternPrefixText(data.admissibleRoutePatterns)
min_route == ToInt(PatternMinText(data.admissibleRoutePatterns))
max_route == ToInt(PatternMaxText(data.admissibleRoutePatterns))

FormatPattern(pre, lo, hi) == pre \o "|" \o ToString(lo) \o "|" \o ToString(hi)

\* f"{prefix}{num}"
FormatRouteName(pre, num) == pre \o ToString(num)

\* re.match(rf"^{prefix}(\d+)$", name): the whole name is the prefix and digits
RouteNameMatches(pre, name) ==
    /\ Len(name) > Len(pre)
    /\ SubSeq(name, 1, Len(pre)) = pre
    /\ AllIn(SubSeq(name, Len(pre) + 1, Len(name)), Digits)

\* int(match.group(1))
RouteNumberOf(pre, name) == ToInt(SubSeq(name, Len(pre) + 1, Len(name)))

\* re.match(rf"{prefix}\d+", name): the name starts with the prefix and a digit
PrefixMatches(pre, name) ==
    /\ Len(name) > Len(pre)
    /\ SubSeq(name, 1, Len(pre)) = pre
    /\ CharAt(name, Len(pre) + 1) \in Digits

(***************************************************************************)
(* ZoneLookup and GeometryCodec.  A geometry is [kind, parts]: parts is    *)
(* the set of its polygonal parts, each part the set of postal areas       *)
(* (cells) merged into it.  A polygonCoordinates payload is the set of its *)
(* blank-line separated parts, each the ring of one part.                  *)
(***************************************************************************)
\* the CFSAUID values of the shapefile
gdf == {"H9R", "H9S", "H9T", "H9X"}

\* the boundaries of the shapefile that share an edge: H9R - H9S - H9T are in
\* a row, H9X lies apart
Touching == {{"H9R", "H9S"}, {"H9S", "H9T"}}

None == [kind |-> "None", parts |-> {}]

\* the cells of S that a chain of touching cells of S links to cell c
RECURSIVE Grow(_, _)
Grow(S, part) ==
    LET more == {d \in S : \E c \in part : {c, d} \in Touching}
    IN  IF more \subseteq part THEN part ELSE Grow(S, part \cup more)

\* gdf[gdf["CFSAUID"].isin(codes)].unary_union: touching boundaries merge into
\* one polygon, the others stay separate parts
unary_union(codes) ==
    LET cells == codes \cap gdf
        parts == {Grow(cells, {c}) : c \in cells}
    IN  [kind |-> IF parts = {} THEN "GeometryCollection"
                  ELSE IF Cardinality(parts) = 1 THEN "Polygon"
                  ELSE "MultiPolygon",
         parts |-> parts]

\* Home.py normalize_geom
normalize_geom(geom) ==
    IF geom = None THEN None
    ELSE IF geom.kind \in {"Polygon", "MultiPolygon"} THEN geom
    ELSE LET polys == geom.parts
         IN  IF polys = {} THEN None
             ELSE IF Cardinality(polys) = 1
                  THEN [kind |-> "Polygon", parts |-> polys]
                  ELSE [kind |-> "MultiPolygon", parts |-> polys]

\* Home.py polygon_to_text: one text part per polygon, "" for any other kind
polygon_to_text(geom) ==
    IF geom.kind \in {"Polygon", "MultiPolygon"} THEN geom.parts ELSE {}

\* Home.py parse_polygon_text: None for an empty payload, a Polygon for one
\* valid part, a MultiPolygon for several
parse_polygon_text(coords_text) ==
    IF coords_text = {} THEN None
    ELSE [kind |-> IF Cardinality(coords_text) = 1 THEN "Polygon"
                   ELSE "MultiPolygon",
          parts |-> coords_text]

\* shapely: geom.intersects(Point) for a point inside the boundary of cell c
Intersects(geom, c) == \E part \in geom.parts : c \in part

(***************************************************************************)
(* Sequences.                                                              *)
(***************************************************************************)
RemoveAt(s, i) == SubSeq(s, 1, i - 1) \o SubSeq(s, i + 1, Len(s))

Range(s) == {s[i] : i \in 1..Len(s)}

\* [a for a in tokens if a]
RECURSIVE NonEmpty(_)
NonEmpty(s) ==
    IF s = <<>> THEN <<>>
    ELSE IF Head(s) = "" THEN NonEmpty(Tail(s))
    ELSE <<Head(s)>> \o NonEmpty(Tail(s))

(***************************************************************************)
(* The configuration document.                                             *)
(*   data.admissibleRoutePatterns, data.routeNumberGap,                    *)
(*   data.routingParameterUiVehicleDTOs : the routes, each                 *)
(*     [name, adjacentRoutes, representative, preferences]                 *)
(*     with preferences (routingParameterUiVehiclePreferenceDTOs) a        *)
(*     sequence of [zone, zip, polygonCoordinates], zone being the name of *)
(*     the preference's routingParameterUiPolygonDTO,                      *)
(*   data.routingParameterNodeDTOs : the label of each graph node.         *)
(***************************************************************************)
Vehicles == data.routingParameterUiVehicleDTOs

\* Home.py build_polygons_from_data: the (route, preference) pairs whose
\* payload parses, in document order
build_polygons_from_data(d) ==
    UNION {{<<i, j>> : j \in {k \in 1..Len(d.routingParameterUiVehicleDTOs[i].preferences) :
                parse_polygon_text(
                    d.routingParameterUiVehicleDTOs[i].preferences[k].polygonCoordinates)
                    # None}} : i \in 1..Len(d.routingParameterUiVehicleDTOs)}

polygons == build_polygons_from_data(data)

Before(a, b) == a[1] < b[1] \/ (a[1] = b[1] /\ a[2] <= b[2])

\* Home.py:189-196: the first polygon of the list that the clicked point hits
Hits(point) ==
    {poly \in polygons :
        Intersects(parse_polygon_text(
            Vehicles[poly[1]].preferences[poly[2]].polygonCoordinates), point)}

found(point) == CHOOSE poly \in Hits(point) : \A q \in Hits(point) : Before(poly, q)

\* Home.py:208-211
zips_in_route(route) == UNION {route.preferences[j].zip : j \in 1..Len(route.preferences)}

\* Home.py:221: the route names of the displayed polygons
all_route_names == {Vehicles[poly[1]].name : poly \in polygons}

\* Home.py:229: the name is taken by another route
NameInUse(new_route_name, route_name, names) ==
    new_route_name # route_name /\ new_route_name \in names

\* Home.py:222-230: "" when the name is accepted, else the error shown
ValidationError(new_route_name, route_name, pre, lo, hi, names) ==
    IF ~RouteNameMatches(pre, new_route_name) THEN "pattern"
    ELSE IF ~(lo <= RouteNumberOf(pre, new_route_name)
              /\ RouteNumberOf(pre, new_route_name) <= hi)
         THEN "range"
    ELSE IF NameInUse(new_route_name, route_name, names) THEN "used"
    ELSE ""

\* a removal that takes the codes out of every preference of the route
AfterRemoval_everywhere(prefs, p, zip_to_remove) ==
    IF zip_to_remove = {} THEN prefs
    ELSE [j \in 1..Len(prefs) |-> [prefs[j] EXCEPT !.zip = @ \ zip_to_remove]]

\* a removal that keeps a preference emptied of its codes
AfterRemoval_keeping(prefs, p, zip_to_remove) ==
    IF zip_to_remove = {} THEN prefs
    ELSE [prefs EXCEPT ![p].zip = prefs[p].zip \ zip_to_remove]

\* Home.py:238-254: the preferences after the removal of codes from the
\* selected preference p
AfterRemoval(prefs, p, zip_to_remove) ==
    IF zip_to_remove = {} THEN prefs
    ELSE LET remaining == prefs[p].zip \ zip_to_remove
             merged_norm == normalize_geom(unary_union(remaining))
         IN  IF remaining # {}
             THEN [prefs EXCEPT
                     ![p].zip = remaining,
                     ![p].polygonCoordinates =
                         IF remaining \cap gdf # {} /\ merged_norm # None
                         THEN polygon_to_text(merged_norm) ELSE @]
             ELSE RemoveAt(prefs, p)

\* an addition without the filter of Home.py:260
to_create_unfiltered(to_add, in_route) == to_add

\* Home.py:260: the codes of the input that no preference of the route holds
to_create(to_add, in_route) == to_add \ in_route

\* Home.py:261
duplicates(to_add, in_route) == to_add \cap in_route

\* a numbering by the count of the names of the route
NumberedName_counted(base_zone_name, existing_names, i) ==
    base_zone_name \o ToString(Cardinality(existing_names) + 1)

\* Home.py:280-283: the first name base2, base3, ... that is not taken
RECURSIVE NumberedName(_, _, _)
NumberedName(base_zone_name, existing_names, i) ==
    IF (base_zone_name \o ToString(i)) \in existing_names
    THEN NumberedName(base_zone_name, existing_names, i + 1)
    ELSE base_zone_name \o ToString(i)

\* a naming without the numbering of Home.py:278-283
new_zone_name_unnumbered(base_zone_name, existing_names) == base_zone_name

\* Home.py:273-283
new_zone_name_unique(base_zone_name, existing_names) ==
    IF base_zone_name \in existing_names
    THEN NumberedName(base_zone_name, existing_names, 2)
    ELSE base_zone_name

\* a creation that does not look the codes up in the shapefile
Creates_unresolved(to_add, in_route) == to_create(to_add, in_route) # {}

\* Home.py:264-269: a preference is created
Creates(to_add, in_route) ==
    /\ to_create(to_add, in_route) # {}
    /\ to_create(to_add, in_route) \cap gdf # {}
    /\ normalize_geom(unary_union(to_create(to_add, in_route))) # None

\* Home.py:258-302: the preferences after the addition
AfterAddition(prefs, zone_name, to_add, in_route) ==
    IF Creates(to_add, in_route)
    THEN Append(prefs,
           [zone |-> new_zone_name_unique(zone_name,
                        {prefs[j].zone : j \in 1..Len(prefs)}),
            zip |-> to_create(to_add, in_route),
            polygonCoordinates |->
                polygon_to_text(normalize_geom(unary_union(to_create(to_add, in_route))))])
    ELSE prefs

\* Home.py:232-304: the route of the selected polygon after an accepted edit
EditedRoute(route, p, form) ==
    [name |-> form.new_route_name,
     adjacentRoutes |-> form.new_adj,
     representative |-> route.representative,
     preferences |->
        AfterAddition(
            AfterRemoval([route.preferences EXCEPT ![p].zone = form.new_zone_name],
                         p, form.zip_to_remove),
            route.preferences[p].zone, form.zip_to_add, zips_in_route(route))]

(***************************************************************************)
(* The bulk renumbering page (RangeRemapper).                              *)
(***************************************************************************)
\* bulk page:84-95: old name -> new name, built in document order; a name met
\* again overwrites its entry
RECURSIVE name_mapping(_, _, _, _)
name_mapping(rs, pre, current_num, route_gap) ==
    IF rs = <<>> THEN <<>>
    ELSE IF ~PrefixMatches(pre, Head(rs).name)
         THEN name_mapping(Tail(rs), pre, current_num, route_gap)
    ELSE name_mapping(Tail(rs), pre, current_num + route_gap, route_gap)
            @@ (Head(rs).name :> FormatRouteName(pre, current_num))

\* name_mapping.get(a, a)
MapGet(mapping, a) == IF a \in DOMAIN mapping THEN mapping[a] ELSE a

\* a rewriting of adjacentRoutes that leaves the tokens as they are
RewriteAdjacent_unmapped(mapping, adj) == NonEmpty(adj)

\* bulk page:113-116: split, strip, drop the empty tokens, remap, join
RewriteAdjacent(mapping, adj) ==
    LET adj_list == NonEmpty(adj)
    IN  [k \in 1..Len(adj_list) |-> MapGet(mapping, adj_list[k])]

\* bulk page:119-123
RewriteRepresentative(mapping, rep) ==
    IF rep # "" /\ rep \in DOMAIN mapping THEN mapping[rep] ELSE rep

\* bulk page:128-132: split, remap each token, join; an empty label is kept
RewriteLabel(mapping, label) == [k \in 1..Len(label) |-> MapGet(mapping, label[k])]

\* bulk page:97-123: one route after the renaming and the rewriting
RemappedRoute(mapping, route, adjust) ==
    [name |-> MapGet(mapping, route.name),
     adjacentRoutes |->
        IF adjust /\ route.adjacentRoutes # <<>>
        THEN RewriteAdjacent(mapping, route.adjacentRoutes)
        ELSE route.adjacentRoutes,
     representative |->
        IF adjust THEN RewriteRepresentative(mapping, route.representative)
        ELSE route.representative,
     preferences |-> route.preferences]

\* bulk page:80-133: the document after the handler
Remapped(d, new_min, new_max, adjust) ==
    LET pre == PatternPrefixText(d.admissibleRoutePatterns)
        mapping == name_mapping(d.routingParameterUiVehicleDTOs, pre, new_min,
                                d.routeNumberGap)
    IN  [admissibleRoutePatterns |-> FormatPattern(pre, new_min, new_max),
         routeNumberGap |-> d.routeNumberGap,
         routingParameterUiVehicleDTOs |->
            [i \in 1..Len(d.routingParameterUiVehicleDTOs) |->
                RemappedRoute(mapping, d.routingParameterUiVehicleDTOs[i], adjust)],
         routingParameterUiPolygonDTOs |-> d.routingParameterUiPolygonDTOs,
         routingParameterNodeDTOs |->
            [n \in 1..Len(d.routingParameterNodeDTOs) |->
                IF adjust THEN RewriteLabel(mapping, d.routingParameterNodeDTOs[n])
                ELSE d.routingParameterNodeDTOs[n]]]

\* the tokens of the reference fields of a document: adjacentRoutes,
\* representative (bulk page:150-156) and node labels (bulk page:158-163)
RouteRefs(d) ==
    UNION {Range(d.routingParameterUiVehicleDTOs[i].adjacentRoutes)
             \cup {d.routingParameterUiVehicleDTOs[i].representative} :
           i \in 1..Len(d.routingParameterUiVehicleDTOs)}

LabelRefs(d) ==
    UNION {Range(d.routingParameterNodeDTOs[n]) : n \in 1..Len(d.routingParameterNodeDTOs)}

AllNames(d) ==
    {d.routingParameterUiVehicleDTOs[i].name : i \in 1..Len(d.routingParameterUiVehicleDTOs)}

\* bulk page:147-163: the closure check
broken_refs(d) == {ref \in RouteRefs(d) \cup LabelRefs(d) : ref # "" /\ ref \notin AllNames(d)}

(***************************************************************************)
(* The documents a session starts from, and the inputs of the handlers.    *)
(***************************************************************************)
\* the routingParameterUiPolygonDTO of a preference, as the flat list
\* routingParameterUiPolygonDTOs holds it
ZoneOf(pref) == [name |-> pref.zone, polygonCoordinates |-> pref.polygonCoordinates]

\* the route names of the uploaded document, in document order
InitNameSeqs ==
    {<<"MONT1500", "MONT1505", "MONT1510">>, <<"MONT1510", "HUB", "MONT1505">>}

\* the adjacency string of the first route: none, or one naming no route
InitDangling == {"", "GHOST", "MONT2000"}

\* the postal codes of the preference of the i-th route
InitZips == <<{"H9R", "H9S"}, {"H9T"}, {"H9X"}>>

\* a document as the from-scratch generator lays it out: one representative
\* for all routes, each route adjacent to the one before it, one node per
\* route, one preference per route; the last route may have lost its
\* preference (Home.py:252-254 leaves such a route in the document)
InitRoute(names, i, dangling, emptyLast) ==
    [name |-> names[i],
     adjacentRoutes |->
        IF i > 1 THEN <<names[i - 1]>>
        ELSE IF dangling = "" THEN <<>> ELSE <<dangling>>,
     representative |-> names[1],
     preferences |->
        IF emptyLast /\ i = Len(names) THEN <<>>
        ELSE <<[zone |-> "Z", zip |-> InitZips[i],
                polygonCoordinates |->
                    polygon_to_text(normalize_geom(unary_union(InitZips[i])))]>>]

InitDocument(names, dangling, emptyLast) ==
    [admissibleRoutePatterns |-> "MONT|1500|1999",
     routeNumberGap |-> 5,
     routingParameterUiVehicleDTOs |->
        [i \in 1..Len(names) |-> InitRoute(names, i, dangling, emptyLast)],
     routingParameterUiPolygonDTOs |->
        [i \in 1..(IF emptyLast THEN Len(names) - 1 ELSE Len(names)) |->
            ZoneOf(InitRoute(names, i, dangling, emptyLast).preferences[1])],
     routingParameterNodeDTOs |-> [i \in 1..Len(names) |-> <<names[i]>>]]

\* no document uploaded
NoDocument ==
    [admissibleRoutePatterns |-> "", routeNumberGap |-> 1,
     routingParameterUiVehicleDTOs |-> <<>>, routingParameterUiPolygonDTOs |-> <<>>,
     routingParameterNodeDTOs |-> <<>>]

\* the texts typed into "Nom de la route" (besides the name left as shown)
NameInputs == {"MONT1505", "MONT1520", "MONT2000", "MONTX"}

\* the texts typed into "Nom de la zone" (besides the name left as shown)
ZoneInputs == {"Z2"}

\* the code lists typed into "Ajouter ZIP" / "Supprimer ZIP" (besides none)
AddInputs == {{"H9S", "H9T", "ZZZ"}, {"ZZZ"}, {"H9X"}}
RemoveInputs == {{"H9S", "H9T"}}

\* the texts typed into "Routes adjacentes" (besides the text left as shown)
AdjInputs == {<<>>}

\* the "Nouveau minimum" / "Nouveau maximum" values
NewMins == {1505, 2000}
NewMaxs == {1510, 2499}

\* the edit form filled for the selected route and preference: the operator
\* changes the route name (and may remove codes), or the zone and the codes,
\* or the adjacency
Forms(route, pref) ==
    LET shown == [new_route_name |-> route.name, new_zone_name |-> pref.zone,
                  zip_to_add |-> {}, zip_to_remove |-> {},
                  new_adj |-> route.adjacentRoutes]
    IN  {[shown EXCEPT !.new_route_name = n, !.zip_to_remove = rem] :
            n \in NameInputs, rem \in {{}} \cup RemoveInputs}
        \cup
        {[shown EXCEPT !.new_zone_name = z, !.zip_to_add = add, !.zip_to_remove = rem] :
            z \in {pref.zone} \cup ZoneInputs, add \in {{}} \cup AddInputs,
            rem \in {{}} \cup RemoveInputs}
        \cup
        {[shown EXCEPT !.new_adj = a] : a \in AdjInputs}

NoRun ==
    [op |-> "none", r |-> 0, p |-> 0,
     new_route_name |-> "", new_zone_name |-> "", zip_to_add |-> {},
     zip_to_remove |-> {}, new_adj |-> <<>>,
     new_min |-> 0, new_max |-> 0, adjust |-> FALSE,
     error |-> "", duplicates |-> {}, no_geometry |-> FALSE, broken_refs |-> {}]

(***************************************************************************)
(* Home.py:220-309: "Appliquer les changements" on the polygon found at    *)
(* the clicked point; the document is saved when the name is accepted.     *)
(***************************************************************************)
Apply(r, p, form, error) ==
    /\ data' = IF error = ""
               THEN [data EXCEPT !.routingParameterUiVehicleDTOs[r] =
                                    EditedRoute(Vehicles[r], p, form)]
               ELSE data
    /\ last' = [NoRun EXCEPT
            !.op = "apply", !.r = r, !.p = p,
            !.new_route_name = form.new_route_name,
            !.new_zone_name = form.new_zone_name,
            !.zip_to_add = form.zip_to_add,
            !.zip_to_remove = form.zip_to_remove,
            !.new_adj = form.new_adj,
            !.error = error,
            !.duplicates =
                IF error = ""
                THEN duplicates(form.zip_to_add, zips_in_route(Vehicles[r]))
                ELSE {},
            !.no_geometry =
                /\ error = ""
                /\ to_create(form.zip_to_add, zips_in_route(Vehicles[r])) # {}
                /\ to_create(form.zip_to_add, zips_in_route(Vehicles[r])) \cap gdf = {}]

ApplyChanges ==
    /\ cycles < MaxCycles
    /\ PatternMatches(data.admissibleRoutePatterns)
    /\ LET pre == prefix
           lo == min_route
           hi == max_route
           names == all_route_names
       IN  \E poly \in {found(point) : point \in {c \in gdf : Hits(c) # {}}} :
             \E form \in Forms(Vehicles[poly[1]], Vehicles[poly[1]].preferences[poly[2]]) :
                Apply(poly[1], poly[2], form,
                      ValidationError(form.new_route_name, Vehicles[poly[1]].name,
                                      pre, lo, hi, names))
    /\ cycles' = cycles + 1
    /\ UNCHANGED <<scratchVars, manualVars, reshapeVars, codecVars, normVars>>

(***************************************************************************)
(* bulk page:72-170: "Appliquer les changements" of the renumbering page.  *)
(***************************************************************************)
\* bulk page:56-64
valid_range(new_min, new_max) == ~(new_min >= new_max) /\ ~(new_min < 0 \/ new_max < 0)

Remap(new_min, new_max, adjust, remapped) ==
    /\ data' = IF valid_range(new_min, new_max) THEN remapped ELSE data
    /\ last' = [NoRun EXCEPT
            !.op = "remap", !.new_min = new_min, !.new_max = new_max,
            !.adjust = adjust,
            !.error = IF valid_range(new_min, new_max) THEN "" ELSE "range",
            !.broken_refs =
                IF valid_range(new_min, new_max) THEN broken_refs(remapped) ELSE {}]

RemapRange ==
    /\ cycles < MaxCycles
    /\ PatternMatches(data.admissibleRoutePatterns)
    /\ \E new_min \in NewMins, new_max \in NewMaxs, adjust \in BOOLEAN :
          Remap(new_min, new_max, adjust, Remapped(data, new_min, new_max, adjust))
    /\ cycles' = cycles + 1
    /\ UNCHANGED <<scratchVars, manualVars, reshapeVars, codecVars, normVars>>

(***************************************************************************)
(* app9.py: the from-scratch generator.                                    *)
(***************************************************************************)
\* app9.py:93: prefix, start_num, end_num = ("MONT", 1000, 1499)
scratch_prefix == "MONT"
start_num == 1000
end_num == 1499

\* the FSAs picked in the multiselect, and the "Ecart entre numeros de route"
FsaSelections == {{}, {"H9R"}, {"H9S", "H9T"}, {"H9R", "H9X"}, {"H9X"}}
GapInputs == {5, 250}

\* the boundaries of the shapefile lie in a row: the extent [CellLow, CellHigh]
\* of each along the row.  H9R, H9S and H9T share their ends, H9X is apart
\* and smaller.
CellLow(c) == CASE c = "H9R" -> 0 [] c = "H9S" -> 12 [] c = "H9T" -> 24 [] OTHER -> 40
CellHigh(c) == CASE c = "H9R" -> 12 [] c = "H9S" -> 24 [] c = "H9T" -> 36 [] OTHER -> 48

\* a polygonal part is connected: it extends from the lowest end of its cells
\* to the highest
PartLow(part) == CHOOSE x \in {CellLow(c) : c \in part} : \A c \in part : x <= CellLow(c)
PartHigh(part) == CHOOSE x \in {CellHigh(c) : c \in part} : \A c \in part : CellHigh(c) <= x

\* shapely: g.area
Area(part) == PartHigh(part) - PartLow(part)

\* a reduction that keeps every part of the union
union_to_polygon_whole(geom) == geom

\* app9.py:38-41: the first part of greatest area of a MultiPolygon (geoms in
\* the order of the row), any other geometry as it is
union_to_polygon(geom) ==
    IF geom.kind = "MultiPolygon"
    THEN [kind |-> "Polygon",
          parts |-> {CHOOSE g \in geom.parts :
                        \A h \in geom.parts :
                            \/ Area(h) < Area(g)
                            \/ (Area(h) = Area(g) /\ PartLow(g) <= PartLow(h))}]
    ELSE geom

\* app9.py:43-46: the exterior ring of the polygon
polygon_to_str(geom) == geom.parts

\* app9.py:119-121: the first number from start_num on, in steps of the gap,
\* that is not in used_nums
RECURSIVE NextNumber(_, _, _)
NextNumber(num, used, route_number_gap) ==
    IF num \in used THEN NextNumber(num + route_number_gap, used, route_number_gap)
    ELSE num

\* app9.py:130-163: the route record
NewRoute(route_name, selected_fsas, geom_union) ==
    [name |-> route_name,
     adjacentRoutes |-> <<>>,
     representative |-> "",
     preferences |-> <<[zone |-> route_name, zip |-> selected_fsas,
                        polygonCoordinates |-> polygon_to_str(geom_union)]>>,
     geom |-> geom_union]

\* app9.py:111-165: "Ajouter la route a partir des FSAs selectionnees"; with
\* no FSA selected a warning is shown and nothing is created
AddRoute ==
    /\ Len(routes) < MaxCreated
    /\ \E selected_fsas \in FsaSelections, route_number_gap \in GapInputs :
        IF selected_fsas = {}
        THEN /\ created' = [created EXCEPT !.selected_fsas = {}]
             /\ UNCHANGED <<routes, used_nums>>
        ELSE LET num == NextNumber(start_num, Range(used_nums), route_number_gap)
             IN  /\ used_nums' = Append(used_nums, num)
                 /\ routes' = Append(routes,
                        NewRoute(FormatRouteName(scratch_prefix, num), selected_fsas,
                                 union_to_polygon(unary_union(selected_fsas))))
                 /\ created' = [num |-> num, used_before |-> Range(used_nums),
                                route_number_gap |-> route_number_gap,
                                selected_fsas |-> selected_fsas]
    /\ UNCHANGED <<json_data, generated>>
    /\ UNCHANGED <<docVars, manualVars, reshapeVars, codecVars, normVars>>

\* the depot: a point of the row (depot_lat, depot_lng of app9.py:82-83, 90)
DepotInputs == {18, 35, 38}

\* r.pop("_geom"): the route has no "_geom" key
Absent == [kind |-> "Absent", parts |-> {}]

\* shapely: geom.contains(depot_point), the boundary excluded
Contains(geom, depot_point) ==
    \E part \in geom.parts : PartLow(part) < depot_point /\ depot_point < PartHigh(part)

\* app9.py:48-52: geom.centroid.distance(depot_point), doubled (the centroid
\* of a part is the middle of its extent)
distance_to_depot(geom, depot_point) ==
    LET part == CHOOSE g \in geom.parts : TRUE
        twice == PartLow(part) + PartHigh(part) - 2 * depot_point
    IN  IF twice < 0 THEN -twice ELSE twice

\* app9.py:173: the routes whose polygon contains the depot, by index
containing(rs, depot_point) == {i \in 1..Len(rs) : Contains(rs[i].geom, depot_point)}

\* min(routes, key=...): the first route of least distance
Nearest(rs, depot_point) ==
    CHOOSE i \in 1..Len(rs) :
        \A j \in 1..Len(rs) :
            \/ distance_to_depot(rs[i].geom, depot_point)
                    < distance_to_depot(rs[j].geom, depot_point)
            \/ (distance_to_depot(rs[i].geom, depot_point)
                    = distance_to_depot(rs[j].geom, depot_point) /\ i <= j)

\* a choice of the representative by distance alone
rep_name_nearest(rs, depot_point) == rs[Nearest(rs, depot_point)].name

\* app9.py:174-176
rep_name(rs, depot_point) ==
    IF containing(rs, depot_point) # {}
    THEN rs[CHOOSE i \in containing(rs, depot_point) :
                \A j \in containing(rs, depot_point) : i <= j].name
    ELSE rs[Nearest(rs, depot_point)].name

\* an ordering that keeps the order of the list
PlaceInOrdered_listed(rs, depot_point, i) == i

\* app9.py:178: the place of route i in sorted(routes, key=...), a stable sort
PlaceInOrdered(rs, depot_point, i) ==
    1 + Cardinality({j \in 1..Len(rs) :
            \/ distance_to_depot(rs[j].geom, depot_point)
                    < distance_to_depot(rs[i].geom, depot_point)
            \/ (distance_to_depot(rs[j].geom, depot_point)
                    = distance_to_depot(rs[i].geom, depot_point) /\ j < i)})

\* app9.py:178: ordered[k], as an index of routes
ordered(rs, depot_point, k) ==
    CHOOSE i \in 1..Len(rs) : PlaceInOrdered(rs, depot_point, i) = k

\* app9.py:170-185
compute_relations(rs, depot_point) ==
    [i \in 1..Len(rs) |->
        [rs[i] EXCEPT
            !.representative = rep_name(rs, depot_point),
            !.adjacentRoutes =
                IF PlaceInOrdered(rs, depot_point, i) = 1 THEN <<>>
                ELSE <<rs[ordered(rs, depot_point,
                                  PlaceInOrdered(rs, depot_point, i) - 1)].name>>,
            !.geom = Absent]]

\* app9.py:80: the "Admissible Route Patterns" field, left as shown
admissible_patterns == "MONT|1000|1499"

\* the texts the operator leaves or types in "Admissible Route Patterns"
PatternInputs == {admissible_patterns, "LAVL|2000|2499"}

\* app9.py:198-241: json_data
JsonData(rs, route_number_gap, patterns) ==
    [admissibleRoutePatterns |-> patterns,
     routeNumberGap |-> route_number_gap,
     routingParameterUiVehicleDTOs |-> rs,
     routingParameterUiPolygonDTOs |-> [i \in 1..Len(rs) |-> ZoneOf(rs[i].preferences[1])],
     routingParameterNodeDTOs |-> [i \in 1..Len(rs) |-> <<rs[i].name>>]]

NoGeneration == [status |-> "none", depot_point |-> 0]

\* app9.py:192-242: "Generer la structure JSON complete".  r["_geom"] of a
\* route that a former generation handled raises KeyError at line 173, before
\* any route is changed.
GenerateJson ==
    /\ \E depot_point \in DepotInputs, route_number_gap \in GapInputs,
          patterns \in PatternInputs :
        IF routes = <<>>
        THEN /\ generated' = [status |-> "empty", depot_point |-> depot_point]
             /\ UNCHANGED <<routes, json_data>>
        ELSE IF \E i \in 1..Len(routes) : routes[i].geom = Absent
        THEN /\ generated' = [status |-> "KeyError", depot_point |-> depot_point]
             /\ UNCHANGED <<routes, json_data>>
        ELSE /\ routes' = compute_relations(routes, depot_point)
             /\ json_data' = JsonData(routes', route_number_gap, patterns)
             /\ generated' = [status |-> "ok", depot_point |-> depot_point]
    /\ UNCHANGED <<used_nums, created>>
    /\ UNCHANGED <<docVars, manualVars, reshapeVars, codecVars, normVars>>

ScratchIdle ==
    /\ routes = <<>>
    /\ used_nums = <<>>
    /\ created = [num |-> 0, used_before |-> {}, route_number_gap |-> 0,
                  selected_fsas |-> {}]
    /\ json_data = NoDocument
    /\ generated = NoGeneration

(***************************************************************************)
(* Creation configuration.py: the manual creation form.                    *)
(***************************************************************************)
\* the "Prefixe des routes", minimum and maximum fields
ManualPrefixes == {"MONT", "LAVL"}
ManualRanges == {<<1500, 1520>>, <<1510, 1530>>}

\* the "Nom de la route" and "FSA associes" fields of the form
ManualNames == {"", "MONT1500", "MONT1515", "MONT1525", "LAVL1515", "MONT15A"}
ManualFsas == {{}, {"H9S"}, {"H9T", "H9X"}}

\* Creation configuration.py:71-82: "" when the route is accepted
ManualError(new_route_name, pre, lo, hi, selected_fsas, rs) ==
    IF new_route_name = "" THEN "required"
    ELSE IF ~RouteNameMatches(pre, new_route_name) THEN "pattern"
    ELSE IF ~(lo <= RouteNumberOf(pre, new_route_name)
              /\ RouteNumberOf(pre, new_route_name) <= hi)
         THEN "range"
    ELSE IF \E i \in 1..Len(rs) : rs[i].name = new_route_name THEN "exists"
    ELSE IF selected_fsas = {} THEN "no_fsa"
    ELSE ""

\* Creation configuration.py:70-88: the add_route_form submission
AddRouteForm ==
    /\ Len(manual_routes) < MaxManual
    /\ \E pre \in ManualPrefixes, range \in ManualRanges,
          new_route_name \in ManualNames, selected_fsas \in ManualFsas :
        LET error == ManualError(new_route_name, pre, range[1], range[2],
                                 selected_fsas, manual_routes)
        IN  /\ manual_routes' =
                    IF error = ""
                    THEN Append(manual_routes,
                                [name |-> new_route_name, fsas |-> selected_fsas])
                    ELSE manual_routes
            /\ manual_last' = error
    /\ UNCHANGED config
    /\ UNCHANGED <<docVars, scratchVars, reshapeVars, codecVars, normVars>>

\* Creation configuration.py:130-147: the route object of the i-th route
route_obj(route, i) ==
    [name |-> route.name,
     adjacentRoutes |-> <<>>,
     representative |-> (i = 1),
     preferences |->
        <<[zone |-> route.name \o "_ZONE",
           zip |-> route.fsas,
           polygonCoordinates |-> polygon_to_text(unary_union(route.fsas))]>>]

\* Creation configuration.py:108-148: the route objects of the routes from
\* the i-th on; a route with no FSA of the shapefile is passed over
RECURSIVE route_objs(_, _)
route_objs(rs, i) ==
    IF i > Len(rs) THEN <<>>
    ELSE IF rs[i].fsas \cap gdf = {} THEN route_objs(rs, i + 1)
    ELSE <<route_obj(rs[i], i)>> \o route_objs(rs, i + 1)

NoConfig ==
    [generated |-> FALSE, admissibleRoutePatterns |-> "",
     routingParameterUiVehicleDTOs |-> <<>>, remapped |-> "none"]

\* Creation configuration.py:96-149: "Generer la configuration finale" with
\* the prefix, minimum and maximum shown at that time
GenerateConfig ==
    /\ manual_routes # <<>>
    /\ \E pre \in ManualPrefixes, range \in ManualRanges :
        config' = [generated |-> TRUE,
                   admissibleRoutePatterns |-> FormatPattern(pre, range[1], range[2]),
                   routingParameterUiVehicleDTOs |-> route_objs(manual_routes, 1),
                   remapped |-> "none"]
    /\ UNCHANGED <<manual_routes, manual_last>>
    /\ UNCHANGED <<docVars, scratchVars, reshapeVars, codecVars, normVars>>

\* bulk page:72-156 on a configuration whose representative is a boolean:
\* "" when the handler reaches its end.  route["representative"].strip() of
\* line 120 raises AttributeError on True; without the adjustment
\* re.split(..., route[field]) of line 152 raises TypeError on True.
RemapConfigError(d, new_min, new_max, adjust) ==
    IF ~valid_range(new_min, new_max) THEN "range"
    ELSE IF \E i \in 1..Len(d.routingParameterUiVehicleDTOs) :
                d.routingParameterUiVehicleDTOs[i].representative
         THEN IF adjust THEN "AttributeError" ELSE "TypeError"
    ELSE ""

\* bulk page:80-105 on such a configuration: the pattern and the names; an
\* empty adjacentRoutes and a False representative are passed over, and
\* routeNumberGap is 1 where the document has none (line 52)
RemappedConfig(d, new_min, new_max, adjust) ==
    LET pre == PatternPrefixText(d.admissibleRoutePatterns)
        mapping == name_mapping(d.routingParameterUiVehicleDTOs, pre, new_min, 1)
    IN  IF RemapConfigError(d, new_min, new_max, adjust) # ""
        THEN [d EXCEPT !.remapped = RemapConfigError(d, new_min, new_max, adjust)]
        ELSE [generated |-> TRUE,
              admissibleRoutePatterns |-> FormatPattern(pre, new_min, new_max),
              routingParameterUiVehicleDTOs |->
                [i \in 1..Len(d.routingParameterUiVehicleDTOs) |->
                    [d.routingParameterUiVehicleDTOs[i] EXCEPT
                        !.name = MapGet(mapping, @)]],
              remapped |-> "ok"]

\* the generated configuration is uploaded to the bulk page and renumbered;
\* a run that raised leaves the configuration as it was uploaded
RemapConfig ==
    /\ config.generated
    /\ PatternMatches(config.admissibleRoutePatterns)
    /\ \E new_min \in NewMins, new_max \in NewMaxs, adjust \in BOOLEAN :
          config' = RemappedConfig(config, new_min, new_max, adjust)
    /\ UNCHANGED <<manual_routes, manual_last>>
    /\ UNCHANGED <<docVars, scratchVars, reshapeVars, codecVars, normVars>>

ManualIdle == manual_routes = <<>> /\ manual_last = "" /\ config = NoConfig

(***************************************************************************)
(* Restructuration par FSA.py: the bulk recomputation of the polygons.     *)
(***************************************************************************)
\* the zip fields of the preferences of the uploaded document
ReshapeZips == {{}, {"ZZZ"}, {"H9R", "H9S"}, {"H9T", "ZZZ"}, {"H9R", "H9X"}}

\* the preferences of one route of the uploaded document
ReshapePreferences ==
    {<<>>} \cup {<<[zone |-> "Z", zip |-> z, polygonCoordinates |-> {}]>> : z \in ReshapeZips}
    \cup {<<[zone |-> "Z", zip |-> z1, polygonCoordinates |-> {}],
            [zone |-> "Z2", zip |-> z2, polygonCoordinates |-> {}]>> :
          z1 \in ReshapeZips, z2 \in {{"ZZZ"}, {"H9T"}}}

ReshapeDocument(prefs1, prefs2) ==
    [admissibleRoutePatterns |-> "MONT|1500|1999",
     routeNumberGap |-> 5,
     routingParameterUiVehicleDTOs |->
        <<[name |-> "MONT1500", adjacentRoutes |-> <<>>, representative |-> "MONT1500",
           preferences |-> prefs1],
          [name |-> "MONT1505", adjacentRoutes |-> <<"MONT1500">>,
           representative |-> "MONT1500", preferences |-> prefs2]>>,
     routingParameterUiPolygonDTOs |-> <<>>,
     routingParameterNodeDTOs |-> <<<<"MONT1500">>, <<"MONT1505">>>>]

\* Restructuration par FSA.py:67-71 normalize_geom
normalize_geom_fsa(geom) ==
    IF geom.kind \in {"Polygon", "MultiPolygon"} THEN geom ELSE None

\* FSA page:87-100: the preference is skipped without an error
ReshapeSkipped(pref) == pref.zip = {}

\* FSA page:91-100: the preference counts as an error
ReshapeError(pref) ==
    /\ pref.zip # {}
    /\ \/ pref.zip \cap gdf = {}
       \/ normalize_geom_fsa(unary_union(pref.zip)) = None

\* FSA page:86-105: one preference after the loop body
ReshapedPreference(pref) ==
    IF ReshapeSkipped(pref) \/ ReshapeError(pref) THEN pref
    ELSE [pref EXCEPT !.polygonCoordinates =
                polygon_to_text(normalize_geom_fsa(unary_union(pref.zip)))]

\* the (route, preference) index pairs of a document, in document order
PreferenceIndex(d) ==
    UNION {{<<i, j>> : j \in 1..Len(d.routingParameterUiVehicleDTOs[i].preferences)} :
           i \in 1..Len(d.routingParameterUiVehicleDTOs)}

\* FSA page:75-122: modified_data, updated, errors and new_polygons
modified_data(d) ==
    [d EXCEPT !.routingParameterUiVehicleDTOs =
        [i \in 1..Len(d.routingParameterUiVehicleDTOs) |->
            [d.routingParameterUiVehicleDTOs[i] EXCEPT !.preferences =
                [j \in 1..Len(d.routingParameterUiVehicleDTOs[i].preferences) |->
                    ReshapedPreference(d.routingParameterUiVehicleDTOs[i].preferences[j])]]]]

errors(d) ==
    Cardinality({ij \in PreferenceIndex(d) :
        ReshapeError(d.routingParameterUiVehicleDTOs[ij[1]].preferences[ij[2]])})

new_polygons(d) ==
    {ij \in PreferenceIndex(d) :
        LET pref == d.routingParameterUiVehicleDTOs[ij[1]].preferences[ij[2]]
        IN  ~ReshapeSkipped(pref) /\ ~ReshapeError(pref)}

NoReshape ==
    [clicked |-> FALSE, modified_data |-> NoDocument, updated |-> 0, errors |-> 0,
     success_shown |-> FALSE, warning_shown |-> FALSE, saved |-> FALSE]

\* FSA page:74-178: "Recalculer les zones et afficher la carte" and the display
\* of the result, which runs when new_polygons is not empty
RecomputeZones ==
    /\ ~reshaped.clicked
    /\ reshaped' =
        [clicked |-> TRUE,
         modified_data |-> modified_data(data),
         updated |-> Cardinality(new_polygons(data)),
         errors |-> errors(data),
         success_shown |-> new_polygons(data) # {},
         warning_shown |-> new_polygons(data) # {} /\ errors(data) # 0,
         saved |-> new_polygons(data) # {}]
    /\ UNCHANGED <<docVars, scratchVars, manualVars, codecVars, normVars>>

\* the page is opened again with another document
UploadAgain ==
    /\ reshaped.clicked
    /\ \E prefs1, prefs2 \in ReshapePreferences : data' = ReshapeDocument(prefs1, prefs2)
    /\ reshaped' = NoReshape
    /\ UNCHANGED <<last, cycles, scratchVars, manualVars, codecVars, normVars>>

ReshapeIdle == reshaped = NoReshape

(***************************************************************************)
(* GeometryCodec on coordinates.  A coordinate is an integer number of     *)
(* units of 10^-UnitDecimals degree, below one degree in size, so that the *)
(* integer part of its text is 0.  A ring is the sequence of its points    *)
(* <<x, y>> (lon, lat), closed as shapely keeps an exterior; a geometry is *)
(* [kind, rings], the exterior rings of its parts in order.  A text is the *)
(* sequence of its lines (the "\r\n" are the boundaries of the lines).     *)
(***************************************************************************)
\* f"{x:.8f}" of Home.py polygon_to_text, f"{x:.12f}" of app9.py polygon_to_str
text_decimals == 8
str_decimals == 12

RECURSIVE Pow10(_)
Pow10(n) == IF n = 0 THEN 1 ELSE 10 * Pow10(n - 1)

\* the units in one step of the last decimal written
Step(decimals) == Pow10(UnitDecimals - decimals)

Abs(x) == IF x < 0 THEN -x ELSE x

\* the rounding of the format specification: to the nearest step, a tie to
\* the even one
RoundHalfEven(x, step) ==
    LET low == (Abs(x) \div step) * step
        rest == Abs(x) - low
        up == \/ 2 * rest > step
              \/ (2 * rest = step /\ (Abs(x) \div step) % 2 = 1)
        size == IF up THEN low + step ELSE low
    IN  IF x < 0 THEN -size ELSE size

RECURSIVE ZeroPad(_, _)
ZeroPad(s, n) == IF Len(s) >= n THEN s ELSE ZeroPad("0" \o s, n)

\* f"{x:.<decimals>f}": sign, "0.", the decimals
FormatFixed(x, decimals) ==
    (IF x < 0 THEN "-" ELSE "") \o "0." \o
    ZeroPad(ToString(Abs(RoundHalfEven(x, Step(decimals))) \div Step(decimals)), decimals)

\* f"{x:.8f},{y:.8f},0"
FormatLine(point, decimals) ==
    FormatFixed(point[1], decimals) \o "," \o FormatFixed(point[2], decimals) \o ",0"

\* "\r\n".join(lines) of one ring
RingLines(ring, decimals) == [k \in 1..Len(ring) |-> FormatLine(ring[k], decimals)]

\* a joining of the parts with "\r\n" alone
RECURSIVE JoinParts_unseparated(_)
JoinParts_unseparated(parts) ==
    IF parts = <<>> THEN <<>> ELSE parts[1] \o JoinParts_unseparated(Tail(parts))

\* "\r\n\r\n".join(parts): an empty line between two parts
RECURSIVE JoinParts(_)
JoinParts(parts) ==
    IF parts = <<>> THEN <<>>
    ELSE IF Len(parts) = 1 THEN parts[1]
    ELSE parts[1] \o <<"">> \o JoinParts(Tail(parts))

\* Home.py:62-72 polygon_to_text, on coordinates
polygon_to_text_lines(geom) ==
    IF geom.kind \in {"Polygon", "MultiPolygon"}
    THEN JoinParts([k \in 1..Len(geom.rings) |-> RingLines(geom.rings[k], text_decimals)])
    ELSE <<>>

\* app9.py:43-46 polygon_to_str, on coordinates: the lines and a last "\r\n"
polygon_to_str_lines(geom) == RingLines(geom.rings[1], str_decimals) \o <<"">>

\* str.strip() of the spaces
RECURSIVE Strip(_)
Strip(s) ==
    IF Len(s) > 0 /\ CharAt(s, 1) = " " THEN Strip(SubSeq(s, 2, Len(s)))
    ELSE IF Len(s) > 0 /\ CharAt(s, Len(s)) = " " THEN Strip(SubSeq(s, 1, Len(s) - 1))
    ELSE s

\* the position of the first character c of s, 0 when there is none
FirstChar(s, c) ==
    IF \E i \in 1..Len(s) : CharAt(s, i) = c
    THEN CHOOSE i \in 1..Len(s) :
            CharAt(s, i) = c /\ \A j \in 1..(i - 1) : CharAt(s, j) # c
    ELSE 0

\* line.split(",")
RECURSIVE SplitComma(_)
SplitComma(s) ==
    IF FirstChar(s, ",") = 0 THEN <<s>>
    ELSE <<SubSeq(s, 1, FirstChar(s, ",") - 1)>>
            \o SplitComma(SubSeq(s, FirstChar(s, ",") + 1, Len(s)))

\* [f.strip() for f in line.split(",") if f.strip()]
RECURSIVE StrippedFields(_)
StrippedFields(fs) ==
    IF fs = <<>> THEN <<>>
    ELSE IF Strip(Head(fs)) = "" THEN StrippedFields(Tail(fs))
    ELSE <<Strip(Head(fs))>> \o StrippedFields(Tail(fs))

\* the digits of a number text before and after its point, its sign apart
Unsigned(s) ==
    IF Len(s) > 0 /\ CharAt(s, 1) \in {"-", "+"} THEN SubSeq(s, 2, Len(s)) ELSE s

IntegerDigits(s) ==
    IF FirstChar(Unsigned(s), ".") = 0 THEN Unsigned(s)
    ELSE SubSeq(Unsigned(s), 1, FirstChar(Unsigned(s), ".") - 1)

FractionDigits(s) ==
    IF FirstChar(Unsigned(s), ".") = 0 THEN ""
    ELSE SubSeq(Unsigned(s), FirstChar(Unsigned(s), ".") + 1, Len(Unsigned(s)))

\* float(field) does not raise ValueError (a number below one degree, with
\* no more decimals than a unit)
IsFloat(s) ==
    /\ AllIn(IntegerDigits(s), Digits) /\ AllIn(FractionDigits(s), Digits)
    /\ Len(IntegerDigits(s)) + Len(FractionDigits(s)) > 0
    /\ ToInt(IntegerDigits(s)) = 0
    /\ Len(FractionDigits(s)) <= UnitDecimals

\* float(field), in units
FloatValue(s) ==
    LET size == ToInt(FractionDigits(s)) * Pow10(UnitDecimals - Len(FractionDigits(s)))
    IN  IF CharAt(s, 1) = "-" THEN -size ELSE size

\* Home.py:102-113: the points of the lines of one part
RECURSIVE PartCoords(_)
PartCoords(lines) ==
    IF lines = <<>> THEN <<>>
    ELSE LET fields == StrippedFields(SplitComma(Head(lines)))
         IN  IF Len(fields) < 2 \/ ~IsFloat(fields[1]) \/ ~IsFloat(fields[2])
             THEN PartCoords(Tail(lines))
             ELSE <<<<FloatValue(fields[1]), FloatValue(fields[2])>>>>
                    \o PartCoords(Tail(lines))

\* coords_text.strip(): the text without its first and last blank lines
RECURSIVE TrimBlank(_)
TrimBlank(text) ==
    IF text # <<>> /\ Strip(Head(text)) = "" THEN TrimBlank(Tail(text))
    ELSE IF text # <<>> /\ Strip(text[Len(text)]) = ""
         THEN TrimBlank(SubSeq(text, 1, Len(text) - 1))
    ELSE text

\* the index of the first blank line of a text, 0 when there is none
FirstBlank(text) ==
    IF \E i \in 1..Len(text) : Strip(text[i]) = ""
    THEN CHOOSE i \in 1..Len(text) :
            Strip(text[i]) = "" /\ \A j \in 1..(i - 1) : Strip(text[j]) # ""
    ELSE 0

\* re.split(r"\r?\n\s*\r?\n", text): the parts between the runs of blank lines
RECURSIVE SplitParts(_)
SplitParts(text) ==
    IF text = <<>> THEN <<>>
    ELSE IF FirstBlank(text) = 0 THEN <<text>>
    ELSE <<SubSeq(text, 1, FirstBlank(text) - 1)>>
            \o SplitParts(TrimBlank(SubSeq(text, FirstBlank(text) + 1, Len(text))))

\* shapely Polygon(coords): the ring is closed where the points do not
CloseRing(coords) ==
    IF coords[1] = coords[Len(coords)] THEN coords ELSE Append(coords, coords[1])

\* Home.py:114-116: the parts of at least three points
RECURSIVE shapely_parts(_)
shapely_parts(parts_raw) ==
    IF parts_raw = <<>> THEN <<>>
    ELSE IF Len(PartCoords(Head(parts_raw))) >= 3
         THEN <<CloseRing(PartCoords(Head(parts_raw)))>> \o shapely_parts(Tail(parts_raw))
    ELSE shapely_parts(Tail(parts_raw))

NoGeometry == [kind |-> "None", rings |-> <<>>]

\* a reading that stops at the first part kept
parse_polygon_text_first(coords_text) ==
    LET parts == shapely_parts(SplitParts(TrimBlank(coords_text)))
    IN  IF TrimBlank(coords_text) = <<>> \/ parts = <<>> THEN NoGeometry
        ELSE [kind |-> "Polygon", rings |-> <<parts[1]>>]

\* Home.py:92-120 parse_polygon_text, on coordinates
parse_polygon_text_lines(coords_text) ==
    LET parts == shapely_parts(SplitParts(TrimBlank(coords_text)))
    IN  IF TrimBlank(coords_text) = <<>> \/ parts = <<>> THEN NoGeometry
        ELSE [kind |-> IF Len(parts) = 1 THEN "Polygon" ELSE "MultiPolygon",
              rings |-> parts]

\* the coordinates of the geometries: on the grid of 8 decimals (one of them
\* negative), on the grid of 12 decimals only, half way between two steps of
\* the 8th decimal, and on neither grid
CodecCoordinates ==
    {0, -3 * Step(text_decimals), 2 * Step(text_decimals),
     Step(text_decimals) + 4 * Step(str_decimals),
     Step(text_decimals) + 5 * (Step(text_decimals) \div 10),
     -(Step(text_decimals) + 7 * (Step(str_decimals) \div 10))}

\* closed rings of three corners
CodecRings ==
    LET a == 0
        b == 2 * Step(text_decimals)
    IN  {<<<<a, a>>, <<b, a>>, <<x, b>>, <<a, a>>>> : x \in CodecCoordinates}
        \cup {<<<<x, a>>, <<b, x>>, <<a, b>>, <<x, a>>>> :
                x \in {-3 * Step(text_decimals),
                       Step(text_decimals) + 4 * Step(str_decimals)}}

CodecGeometries ==
    {[kind |-> "Polygon", rings |-> <<r>>] : r \in CodecRings}
    \cup {[kind |-> "MultiPolygon", rings |-> <<r1, r2>>] : r1, r2 \in CodecRings}

NoCodec == [stage |-> "none", geom |-> NoGeometry, decimals |-> 0, text |-> <<>>,
            decoded |-> NoGeometry]

\* the groups of lines of the polygonCoordinates values a document may hold:
\* three and four well-formed lines, a group with a line of one field and a
\* line of text among four well-formed lines, a group of two well-formed
\* lines and a malformed one, a group with no well-formed line
LoadedBlocks ==
    {<<"0.000001,0.000001,0", "0.000003,0.000001,0", "0.000002,0.000003,0">>,
     <<" 0.000004,0.000004,0", "0.000006 , 0.000004", "0.000006,0.000006,0 ", "0.000004,0.000006">>,
     <<"-0.000001,0.000001,0", "0.000005", "-0.000003,0.000001,0", "x,0.000002,0", "-0.000002,0.000003,0", "-0.000001,0.000001,0">>,
     <<"0.000007,0.000007,0", "0.000007,y,0", "0.000008,0.000007,0">>,
     <<"zone", "0.000009">>}

\* the blank lines between two groups
LoadedSeparators == {<<"">>, <<"", "  ">>}

LoadedTexts ==
    {<<>>, <<"", " ">>}
    \cup LoadedBlocks
    \cup {b1 \o sep \o b2 : b1 \in LoadedBlocks, b2 \in LoadedBlocks,
                              sep \in LoadedSeparators}
    \cup {<<"">> \o b1 \o sep \o b2 \o <<"">> \o b3 \o <<" ">> :
                b1 \in LoadedBlocks, b2 \in LoadedBlocks, b3 \in LoadedBlocks,
                sep \in LoadedSeparators}

\* a polygonCoordinates value of an uploaded document is parsed
ParseLoaded ==
    /\ codec.stage = "loaded"
    /\ codec' = [codec EXCEPT !.stage = "parsed",
                              !.decoded = parse_polygon_text_lines(codec.text)]
    /\ UNCHANGED <<docVars, scratchVars, manualVars, reshapeVars, normVars>>

\* a geometry is given to the encoder of the edit pages
EncodeText ==
    /\ codec.stage = "given"
    /\ codec' = [codec EXCEPT !.stage = "encoded", !.decimals = text_decimals,
                              !.text = polygon_to_text_lines(codec.geom)]
    /\ UNCHANGED <<docVars, scratchVars, manualVars, reshapeVars, normVars>>

\* a polygon is given to the encoder of the from-scratch generator
EncodeStr ==
    /\ codec.stage = "given" /\ codec.geom.kind = "Polygon"
    /\ codec' = [codec EXCEPT !.stage = "encoded", !.decimals = str_decimals,
                              !.text = polygon_to_str_lines(codec.geom)]
    /\ UNCHANGED <<docVars, scratchVars, manualVars, reshapeVars, normVars>>

\* the text is read back
DecodeText ==
    /\ codec.stage = "encoded"
    /\ codec' = [codec EXCEPT !.stage = "decoded",
                              !.decoded = parse_polygon_text_lines(codec.text)]
    /\ UNCHANGED <<docVars, scratchVars, manualVars, reshapeVars, normVars>>

CodecIdle == codec = NoCodec

(***************************************************************************)
(* normalize_geom on the members of a merged geometry.  A geometry is      *)
(* [kind, polys, geoms]: polys the polygons of a Polygon or MultiPolygon   *)
(* in order, geoms the members of a GeometryCollection in order.           *)
(***************************************************************************)
Poly(name) == [kind |-> "Polygon", polys |-> <<name>>, geoms |-> <<>>]
MultiPoly(names) == [kind |-> "MultiPolygon", polys |-> names, geoms |-> <<>>]
Other(kind) == [kind |-> kind, polys |-> <<>>, geoms |-> <<>>]
Collection(members) == [kind |-> "GeometryCollection", polys |-> <<>>, geoms |-> members]

NoneGeom == Other("None")

\* the members a merged collection may hold
CollectionMembers ==
    {Poly("A"), Poly("B"), MultiPoly(<<"C", "D">>), Other("Point"),
     Other("LineString")}

\* the geometries a union may return
MergedGeometries ==
    {NoneGeom, Poly("A"), MultiPoly(<<"A", "B">>), Other("Point"), Collection(<<>>)}
    \cup {Collection(<<g1>>) : g1 \in CollectionMembers}
    \cup {Collection(<<g1, g2>>) : g1, g2 \in CollectionMembers}
    \cup {Collection(<<g1, g2, g3>>) : g1, g2, g3 \in CollectionMembers}

\* Home.py:80-85: the polygons of the members, in order
RECURSIVE polys_of(_)
polys_of(geoms) ==
    IF geoms = <<>> THEN <<>>
    ELSE IF Head(geoms).kind \in {"Polygon", "MultiPolygon"}
         THEN Head(geoms).polys \o polys_of(Tail(geoms))
    ELSE polys_of(Tail(geoms))

\* Home.py:74-90 normalize_geom, on the members of the geometry
normalize_geom_members(geom) ==
    IF geom = NoneGeom THEN NoneGeom
    ELSE IF geom.kind \in {"Polygon", "MultiPolygon"} THEN geom
    ELSE LET polys == polys_of(geom.geoms)
         IN  IF polys = <<>> THEN NoneGeom
             ELSE IF Len(polys) = 1 THEN Poly(polys[1])
             ELSE MultiPoly(polys)

\* Restructuration par FSA.py:67-71 normalize_geom, on the members
normalize_geom_fsa_members(geom) ==
    IF geom.kind \in {"Polygon", "MultiPolygon"} THEN geom ELSE NoneGeom

NoNormalize == [flow |-> "none", geom |-> NoneGeom, result |-> NoneGeom]

\* Home.py:247-248, 267-268: the merged geometry is normalized
NormalizeHome ==
    /\ normalized.flow = "merged"
    /\ normalized' = [normalized EXCEPT !.flow = "Home",
                            !.result = normalize_geom_members(normalized.geom)]
    /\ UNCHANGED <<docVars, scratchVars, manualVars, reshapeVars, codecVars>>

\* Restructuration par FSA.py:96-97: the merged geometry is normalized
NormalizeFsa ==
    /\ normalized.flow = "merged" /\ normalized.geom # NoneGeom
    /\ normalized' = [normalized EXCEPT !.flow = "FSA",
                            !.result = normalize_geom_fsa_members(normalized.geom)]
    /\ UNCHANGED <<docVars, scratchVars, manualVars, reshapeVars, codecVars>>

NormalizeIdle == normalized = NoNormalize

(***************************************************************************)
(* The editing session of one document.                                    *)
(***************************************************************************)
Init ==
    /\ \E names \in InitNameSeqs, dangling \in InitDangling, emptyLast \in BOOLEAN :
          data = InitDocument(names, dangling, emptyLast)
    /\ last = NoRun
    /\ cycles = 0
    /\ ScratchIdle
    /\ ManualIdle
    /\ ReshapeIdle /\ CodecIdle /\ NormalizeIdle

Next == ApplyChanges \/ RemapRange

Spec == Init /\ [][Next]_vars

(***************************************************************************)
(* The from-scratch session (app9.py).                                     *)
(***************************************************************************)
InitScratch ==
    /\ data = NoDocument /\ last = NoRun /\ cycles = 0
    /\ ScratchIdle /\ ManualIdle /\ ReshapeIdle /\ CodecIdle /\ NormalizeIdle

NextScratch == AddRoute \/ GenerateJson

SpecScratch == InitScratch /\ [][NextScratch]_vars

(***************************************************************************)
(* The manual creation session (Creation configuration.py).                *)
(***************************************************************************)
InitManual == InitScratch

NextManual == AddRouteForm \/ GenerateConfig \/ RemapConfig

SpecManual == InitManual /\ [][NextManual]_vars

(***************************************************************************)
(* The recomputation session (Restructuration par FSA.py).                 *)
(***************************************************************************)
InitReshape ==
    /\ \E prefs1, prefs2 \in ReshapePreferences : data = ReshapeDocument(prefs1, prefs2)
    /\ last = NoRun /\ cycles = 0
    /\ ScratchIdle /\ ManualIdle /\ ReshapeIdle /\ CodecIdle /\ NormalizeIdle

NextReshape == RecomputeZones \/ UploadAgain

SpecReshape == InitReshape /\ [][NextReshape]_vars

(***************************************************************************)
(* The codec: encode a geometry, decode the text.                          *)
(***************************************************************************)
InitCodec ==
    /\ data = NoDocument /\ last = NoRun /\ cycles = 0
    /\ ScratchIdle /\ ManualIdle /\ reshaped = NoReshape /\ NormalizeIdle
    /\ \/ \E geom \in CodecGeometries :
            codec = [NoCodec EXCEPT !.stage = "given", !.geom = geom]
       \/ \E text \in LoadedTexts :
            codec = [NoCodec EXCEPT !.stage = "loaded", !.text = text]

NextCodec == EncodeText \/ EncodeStr \/ DecodeText \/ ParseLoaded

SpecCodec == InitCodec /\ [][NextCodec]_vars

(***************************************************************************)
(* normalize_geom applied to a merged geometry, in the two flows.          *)
(***************************************************************************)
InitNormalize ==
    /\ data = NoDocument /\ last = NoRun /\ cycles = 0
    /\ ScratchIdle /\ ManualIdle /\ reshaped = NoReshape /\ CodecIdle
    /\ \E geom \in MergedGeometries :
            normalized = [NoNormalize EXCEPT !.flow = "merged", !.geom = geom]

NextNormalize == NormalizeHome \/ NormalizeFsa

SpecNormalize == InitNormalize /\ [][NextNormalize]_vars


(***************************************************************************)
(* Properties.  In an action formula the unprimed document is the one the  *)
(* handler was run on, the primed one the document it left, and last' the  *)
(* inputs and the report of that run.                                      *)
(***************************************************************************)
Routes(d) == d.routingParameterUiVehicleDTOs

ApplyAccepted == last'.op = "apply" /\ last'.error = ""
ApplyRejected == last'.op = "apply" /\ last'.error # ""
RemapDone == last'.op = "remap" /\ last'.error = ""

\* the route and the preference the edit form was opened on
Selected == Vehicles[last'.r]
SelectedPref == Vehicles[last'.r].preferences[last'.p]

DistinctNames(d) ==
    \A i, j \in 1..Len(Routes(d)) : i # j => Routes(d)[i].name # Routes(d)[j].name

DistinctZones(route) ==
    \A i, j \in 1..Len(route.preferences) :
        i # j => route.preferences[i].zone # route.preferences[j].zone

\* every adjacentRoutes, representative and node-label token names a route
SelfConsistent(d) ==
    \A ref \in RouteRefs(d) \cup LabelRefs(d) : ref = "" \/ ref \in AllNames(d)

----------------------------------------------------------------------------
\* C1: every number createRoute assigns lies in [start_num, end_num] and was
\* not in the used-number set when the call was made.
C1_NumberInRangeAndUnused ==
    Len(routes) > 0 =>
        /\ start_num <= created.num /\ created.num <= end_num
        /\ created.num \notin created.used_before

----------------------------------------------------------------------------
\* C2: the route names of the document stay pairwise distinct under the
\* edit form's rename and the bulk renumbering.
C2_RouteNamesDistinct == DistinctNames(data)

----------------------------------------------------------------------------
\* C3: an edit that adds postal codes and leaves the zone-name field as shown
\* (an addPreference call) keeps the zone names of the route pairwise
\* distinct, whatever it removes in the same run.
C3_AddPreferenceKeepsZonesDistinct ==
    [][(/\ ApplyAccepted
        /\ last'.zip_to_add # {}
        /\ last'.new_zone_name = SelectedPref.zone
        /\ DistinctZones(Selected))
       => DistinctZones(Vehicles'[last'.r])]_vars

\* two addPreference calls were made on one route: it holds Z, Z2 and Z3
C3_Witness ==
    /\ last.op = "apply" /\ last.error = "" /\ last.zip_to_add # {}
    /\ last.new_zone_name = "Z"
    /\ {Vehicles[last.r].preferences[j].zone :
            j \in 1..Len(Vehicles[last.r].preferences)} = {"Z", "Z2", "Z3"}

----------------------------------------------------------------------------
----------------------------------------------------------------------------
\* the adjacency tokens of a document that name no route, each with its route
DanglingAdjacency(d) ==
    {<<i, ref>> \in (1..Len(Routes(d))) \X RouteRefs(d) :
        /\ ref \in Range(Routes(d)[i].adjacentRoutes)
        /\ ref # "" /\ ref \notin AllNames(d)}

\* a document self-consistent except for the adjacency string ref of one route
OneDangling(d, ref) ==
    /\ \E i \in 1..Len(Routes(d)) : DanglingAdjacency(d) = {<<i, ref>>}
    /\ broken_refs(d) = {ref}

\* C5: the renumbering (with the update option checked) of a document that is
\* self-consistent except for one adjacency string naming no route reports
\* exactly that string.
C5_ReportsExactlyTheDanglingString ==
    [][\A ref \in RouteRefs(data) :
          (RemapDone /\ last'.adjust /\ OneDangling(data, ref))
          => last'.broken_refs = {ref}]_vars

----------------------------------------------------------------------------
\* the number of prefix-matching routes among the first i routes of d
Rank(d, pre, i) == Cardinality({j \in 1..i : PrefixMatches(pre, Routes(d)[j].name)})

\* C6: the renumbering renames the N-th prefix-matching route, in document
\* order, to <prefix>(new_min + (N-1) * routeNumberGap), and keeps the other
\* routes and the order of the document.
C6_PositionalResequencing ==
    [][RemapDone =>
        /\ Len(Vehicles') = Len(Vehicles)
        /\ \A i \in 1..Len(Vehicles) :
            /\ Vehicles'[i].preferences = Vehicles[i].preferences
            /\ Vehicles'[i].name =
                IF PrefixMatches(prefix, Vehicles[i].name)
                THEN FormatRouteName(prefix,
                        last'.new_min + (Rank(data, prefix, i) - 1) * data.routeNumberGap)
                ELSE Vehicles[i].name]_vars

\* C6 on the documents whose route names are pairwise distinct
C6_PositionalWhenNamesDistinct ==
    [][(RemapDone /\ DistinctNames(data)) =>
        /\ Len(Vehicles') = Len(Vehicles)
        /\ \A i \in 1..Len(Vehicles) :
            Vehicles'[i].name =
                IF PrefixMatches(prefix, Vehicles[i].name)
                THEN FormatRouteName(prefix,
                        last'.new_min + (Rank(data, prefix, i) - 1) * data.routeNumberGap)
                ELSE Vehicles[i].name]_vars

----------------------------------------------------------------------------
\* the name typed is not <prefix><integer>, or its integer is outside
\* [min_route, max_route], or it is the name of another route of the document
MustBeRejected(name, r) ==
    \/ ~RouteNameMatches(prefix, name)
    \/ RouteNumberOf(prefix, name) < min_route
    \/ RouteNumberOf(prefix, name) > max_route
    \/ \E i \in 1..Len(Vehicles) : i # r /\ Vehicles[i].name = name

\* C7: an edit whose route name must be rejected reports a validation error
\* and leaves the document unchanged.
C7_InvalidRenameRejected ==
    [][(last'.op = "apply" /\ MustBeRejected(last'.new_route_name, last'.r))
       => (last'.error # "" /\ data' = data)]_vars

----------------------------------------------------------------------------
\* C8: after an accepted edit that changes only the name of a route of a
\* self-consistent document, to a name that is admissible and not in use,
\* every reference resolves or is empty, or is in the unresolved references
\* reported.
C8_RenameLeavesNoSilentDangling ==
    [][(/\ ApplyAccepted
        /\ last'.new_route_name # Selected.name
        /\ ~MustBeRejected(last'.new_route_name, last'.r)
        /\ last'.new_adj = Selected.adjacentRoutes
        /\ SelfConsistent(data))
       => broken_refs(data') \subseteq last'.broken_refs]_vars

----------------------------------------------------------------------------
\* C9: an accepted edit that removes the only postal code of the only
\* preference of a route, and adds none, leaves the route in the document, at
\* its place and under the name typed, with no preference.
C9_LastCodeRemovalKeepsRoute ==
    [][(/\ ApplyAccepted
        /\ Len(Selected.preferences) = 1
        /\ Cardinality(SelectedPref.zip) = 1
        /\ SelectedPref.zip \subseteq last'.zip_to_remove
        /\ last'.zip_to_add = {})
       => /\ Len(Vehicles') = Len(Vehicles)
          /\ Vehicles'[last'.r].preferences = <<>>
          /\ Vehicles'[last'.r].name = last'.new_route_name
          /\ \A i \in 1..Len(Vehicles) : i # last'.r => Vehicles'[i] = Vehicles[i]]_vars

\* the only code of the only preference of the second route was removed
C9_Witness ==
    /\ last.op = "apply" /\ last.error = "" /\ cycles = 1
    /\ last.r = 2 /\ last.zip_to_remove = {"H9S", "H9T"} /\ last.zip_to_add = {}
    /\ Len(Vehicles) = 3
    /\ Vehicles[2].preferences = <<>>

----------------------------------------------------------------------------
\* the number of preferences of a route that hold code c
Holders(route, c) ==
    Cardinality({j \in 1..Len(route.preferences) : c \in route.preferences[j].zip})

\* C10: an accepted edit that adds postal codes reports as duplicates exactly
\* the codes typed that a preference of the route already held, adds none of
\* them to any preference, and a preference that received a new code holds
\* only codes no preference of the route held before.
C10_AddPreferenceSkipsDuplicates ==
    [][(ApplyAccepted /\ last'.zip_to_add # {}) =>
        /\ last'.duplicates = last'.zip_to_add \cap zips_in_route(Selected)
        /\ \A c \in zips_in_route(Selected) :
              Holders(Vehicles'[last'.r], c) <= Holders(Selected, c)
        /\ \A j \in 1..Len(Vehicles'[last'.r].preferences) :
              Vehicles'[last'.r].preferences[j].zip
                    \cap (last'.zip_to_add \ zips_in_route(Selected)) # {}
              => Vehicles'[last'.r].preferences[j].zip \cap zips_in_route(Selected) = {}]_vars

\* "H9S,H9T,ZZZ" was added to the route holding H9R and H9S: H9S was reported
\* and the new preference holds H9T and ZZZ
C10_Witness ==
    /\ last.op = "apply" /\ last.error = "" /\ last.r = 1
    /\ last.zip_to_add = {"H9S", "H9T", "ZZZ"}
    /\ last.duplicates = {"H9S"}
    /\ Len(Vehicles[1].preferences) = 2
    /\ Vehicles[1].preferences[1].zip = {"H9R", "H9S"}
    /\ Vehicles[1].preferences[2].zip = {"H9T", "ZZZ"}

----------------------------------------------------------------------------
\* C11: an accepted edit that removes postal codes and adds none leaves every
\* other route as it was, and every other preference of the selected route
\* with its zip set, zone name and polygon, in the same order.
C11_RemovalTouchesSelectedOnly ==
    [][(ApplyAccepted /\ last'.zip_to_remove # {} /\ last'.zip_to_add = {})
       => /\ Len(Vehicles') = Len(Vehicles)
          /\ \A i \in 1..Len(Vehicles) : i # last'.r => Vehicles'[i] = Vehicles[i]
          /\ LET before == Selected.preferences
                 after == Vehicles'[last'.r].preferences
             IN  IF SelectedPref.zip \subseteq last'.zip_to_remove
                 THEN after = RemoveAt(before, last'.p)
                 ELSE /\ Len(after) = Len(before)
                      /\ \A j \in 1..Len(before) : j # last'.p => after[j] = before[j]]_vars

\* "H9S,H9T" was removed from the first preference of the first route: its
\* second preference and the second route still hold H9T
C11_Witness ==
    /\ last.op = "apply" /\ last.error = "" /\ last.r = 1 /\ last.p = 1
    /\ last.zip_to_remove = {"H9S", "H9T"} /\ last.zip_to_add = {}
    /\ Len(Vehicles[1].preferences) = 2
    /\ Vehicles[1].preferences[1].zip = {"H9R"}
    /\ Vehicles[1].preferences[2].zip = {"H9T", "ZZZ"}
    /\ Len(Vehicles[2].preferences) = 1
    /\ Vehicles[2].preferences[1].zip = {"H9T"}

----------------------------------------------------------------------------
\* C12: after an accepted edit that removes codes and leaves at least one in
\* the selected preference, the polygonCoordinates of that preference is the
\* encoding of the merge of the boundaries of the remaining codes.
C12_PolygonFollowsRemainingCodes ==
    [][(/\ ApplyAccepted
        /\ last'.zip_to_remove # {}
        /\ ~(SelectedPref.zip \subseteq last'.zip_to_remove))
       => LET pref == Vehicles'[last'.r].preferences[last'.p]
          IN  /\ pref.zip = SelectedPref.zip \ last'.zip_to_remove
              /\ pref.polygonCoordinates =
                    polygon_to_text(normalize_geom(unary_union(pref.zip)))]_vars

----------------------------------------------------------------------------
\* C14: after an accepted edit that only types a new zone name for the
\* selected preference of a route with distinct zone names, no other
\* preference of the route has that zone name.
C14_ZoneRenameKeepsSiblingsDistinct ==
    [][(/\ ApplyAccepted
        /\ last'.new_zone_name # SelectedPref.zone
        /\ last'.zip_to_add = {} /\ last'.zip_to_remove = {}
        /\ DistinctZones(Selected))
       => \A j \in 1..Len(Vehicles'[last'.r].preferences) :
             j # last'.p => Vehicles'[last'.r].preferences[j].zone # last'.new_zone_name]_vars

----------------------------------------------------------------------------
\* the number of entries of the flat list that are zone z, and the number of
\* preferences of the routes whose zone is z
InFlatList(d, z) ==
    Cardinality({k \in 1..Len(d.routingParameterUiPolygonDTOs) :
                    d.routingParameterUiPolygonDTOs[k] = z})

InPreferences(d, z) ==
    Cardinality({ij \in UNION {{<<i, j>> : j \in 1..Len(Routes(d)[i].preferences)} :
                                i \in 1..Len(Routes(d))} :
                    ZoneOf(Routes(d)[ij[1]].preferences[ij[2]]) = z})

PreferenceZones(d) ==
    UNION {{ZoneOf(Routes(d)[i].preferences[j]) : j \in 1..Len(Routes(d)[i].preferences)} :
           i \in 1..Len(Routes(d))}

\* routingParameterUiPolygonDTOs holds exactly one zone per preference
InSync(d) ==
    \A z \in Range(d.routingParameterUiPolygonDTOs) \cup PreferenceZones(d) :
        InFlatList(d, z) = InPreferences(d, z)

\* C13: the document written by an accepted edit that adds or removes postal
\* codes, made on a document whose flat list routingParameterUiPolygonDTOs
\* holds one zone per preference, holds one zone per preference, with the
\* same name and coordinates.
C13_FlatZoneListInSync ==
    [][(/\ ApplyAccepted
        /\ (last'.zip_to_add # {} \/ last'.zip_to_remove # {})
        /\ InSync(data))
       => InSync(data')]_vars

\* C13, from-scratch half: the structure built by a generation holds one zone
\* per preference.
C13_GeneratedListInSync == generated.status = "ok" => InSync(json_data)

----------------------------------------------------------------------------
\* a generation that ran compute_relations to its end
GenerateDone ==
    /\ routes # <<>> /\ routes' # routes
    /\ \A i \in 1..Len(routes) : routes[i].geom # Absent
    /\ generated'.status = "ok"

\* C15: a generation that completes gives every route the same
\* representative: the name of a route whose polygon contains the depot if
\* there is one, otherwise of a route of least centroid distance to the depot.
C15_OneRepresentative ==
    [][GenerateDone =>
        \E k \in 1..Len(routes) :
            /\ \A i \in 1..Len(routes') : routes'[i].representative = routes[k].name
            /\ IF \E j \in 1..Len(routes) : Contains(routes[j].geom, generated'.depot_point)
               THEN Contains(routes[k].geom, generated'.depot_point)
               ELSE \A j \in 1..Len(routes) :
                        distance_to_depot(routes[k].geom, generated'.depot_point)
                            <= distance_to_depot(routes[j].geom, generated'.depot_point)]_vars

\* the depot is in the polygon of MONT1000 (H9S, H9T) and nearer the centroid
\* of MONT1005 (H9X): MONT1000 is the representative of both
C15_Witness ==
    /\ generated.status = "ok" /\ generated.depot_point = 35
    /\ Len(routes) = 2
    /\ routes[1].name = "MONT1000" /\ routes[1].preferences[1].zip = {"H9S", "H9T"}
    /\ routes[2].name = "MONT1005" /\ routes[2].preferences[1].zip = {"H9X"}
    /\ routes[1].representative = "MONT1000"
    /\ routes[2].representative = "MONT1000"
    /\ routes[1].adjacentRoutes = <<"MONT1005">>

----------------------------------------------------------------------------
\* C16: after a generation that completes there is an order of the routes by
\* ascending centroid distance to the depot in which the first route has no
\* adjacentRoutes and every other route has the name of the route before it;
\* the names being distinct, the adjacency is a chain to the nearest route.
C16_AdjacencyChain ==
    [][GenerateDone =>
        /\ \A i, j \in 1..Len(routes') : routes'[i].name = routes'[j].name => i = j
        /\ \E perm \in Permutations(1..Len(routes)) :
            /\ \A k \in 1..(Len(routes) - 1) :
                  distance_to_depot(routes[perm[k]].geom, generated'.depot_point)
                    <= distance_to_depot(routes[perm[k + 1]].geom, generated'.depot_point)
            /\ routes'[perm[1]].adjacentRoutes = <<>>
            /\ \A k \in 2..Len(routes) :
                  routes'[perm[k]].adjacentRoutes = <<routes'[perm[k - 1]].name>>]_vars

\* three routes, the depot in H9S: H9S,H9T is nearest, then H9R, then H9X
C16_Witness ==
    /\ generated.status = "ok" /\ generated.depot_point = 18
    /\ Len(routes) = 3
    /\ routes[1].preferences[1].zip = {"H9X"}
    /\ routes[2].preferences[1].zip = {"H9R"}
    /\ routes[3].preferences[1].zip = {"H9S", "H9T"}
    /\ routes[3].adjacentRoutes = <<>>
    /\ routes[2].adjacentRoutes = <<routes[3].name>>
    /\ routes[1].adjacentRoutes = <<routes[2].name>>

----------------------------------------------------------------------------
\* C17: no run of the generation handler on a session that holds routes ends
\* in an exception: every invocation of compute_relations completes.
C17_EveryGenerationCompletes == generated.status # "KeyError"

----------------------------------------------------------------------------
\* C19: an add-route run with FSAs selected appends exactly one route, with
\* exactly one preference, whose polygon is a single part: the union of the
\* selected areas when it is one polygon, a part of greatest area otherwise.
C19_OneRouteOnePolygon ==
    [][used_nums' # used_nums =>
        /\ Len(routes') = Len(routes) + 1
        /\ SubSeq(routes', 1, Len(routes)) = routes
        /\ LET route == routes'[Len(routes')]
               union == unary_union(created'.selected_fsas)
           IN  /\ Len(route.preferences) = 1
               /\ route.preferences[1].zip = created'.selected_fsas
               /\ \E g \in union.parts :
                    /\ route.preferences[1].polygonCoordinates = {g}
                    /\ \A h \in union.parts : Area(h) <= Area(g)]_vars

\* H9R and H9X were selected: the route keeps H9R, the larger of the two
C19_Witness ==
    /\ Len(routes) > 0
    /\ created.selected_fsas = {"H9R", "H9X"}
    /\ routes[Len(routes)].preferences[1].zip = {"H9R", "H9X"}
    /\ routes[Len(routes)].preferences[1].polygonCoordinates = {{"H9R"}}

----------------------------------------------------------------------------
\* the preferences of the document whose postal-code set is empty or matches
\* no boundary, or whose merge is not polygonal
Unrecomputable(d) ==
    {ij \in PreferenceIndex(d) :
        LET pref == d.routingParameterUiVehicleDTOs[ij[1]].preferences[ij[2]]
        IN  \/ pref.zip \cap gdf = {}
            \/ normalize_geom_fsa(unary_union(pref.zip)) = None}

\* C18: after the bulk recomputation the error count is the number of
\* preferences that could not be recomputed, every other preference has the
\* polygon of its codes, and a count that is not zero is shown.
C18_ErrorsCountedAndShown ==
    reshaped.clicked =>
        /\ reshaped.errors = Cardinality(Unrecomputable(data))
        /\ reshaped.updated = Cardinality(PreferenceIndex(data) \ Unrecomputable(data))
        /\ (reshaped.errors > 0 => reshaped.warning_shown)

----------------------------------------------------------------------------
\* a ring without its closing point
OpenRing(ring) ==
    IF Len(ring) > 1 /\ ring[1] = ring[Len(ring)] THEN SubSeq(ring, 1, Len(ring) - 1)
    ELSE ring

Reversed(ring) == [k \in 1..Len(ring) |-> ring[Len(ring) + 1 - k]]

\* the same sequence of points, up to direction and the closing point
SameRing(r1, r2) ==
    \/ OpenRing(r1) = OpenRing(r2)
    \/ OpenRing(r1) = OpenRing(Reversed(r2))

\* as many parts, and the same ring part by part
SameParts(g1, g2) ==
    /\ Len(g1.rings) = Len(g2.rings)
    /\ \A k \in 1..Len(g1.rings) : SameRing(g1.rings[k], g2.rings[k])

\* the geometry with every coordinate rounded to the decimals written
RoundedTo(geom, decimals) ==
    [geom EXCEPT !.rings =
        [k \in 1..Len(geom.rings) |->
            [n \in 1..Len(geom.rings[k]) |->
                <<RoundHalfEven(geom.rings[k][n][1], Step(decimals)),
                  RoundHalfEven(geom.rings[k][n][2], Step(decimals))>>]]]

\* C20 as stated: the text of a geometry decodes to as many parts, each with
\* the ring of the corresponding part of the geometry.
C20_RoundTrip ==
    codec.stage = "decoded" => SameParts(codec.decoded, codec.geom)

\* C20 as amended: the text of a geometry decodes to as many parts, each with
\* the ring of the corresponding part with every coordinate rounded to the
\* decimals written (8, or 12 from scratch); it is the ring of the geometry
\* itself when no coordinate has more decimals.
C20_RoundTripUpToRounding ==
    codec.stage = "decoded" =>
        /\ SameParts(codec.decoded, RoundedTo(codec.geom, codec.decimals))
        /\ (RoundedTo(codec.geom, codec.decimals) = codec.geom
                => SameParts(codec.decoded, codec.geom))

\* a multi-polygon of two parts, with a negative coordinate and a coordinate
\* of more than 8 decimals, was written and read back
C20_Witness ==
    /\ codec.stage = "decoded" /\ codec.decimals = text_decimals
    /\ codec.geom.kind = "MultiPolygon"
    /\ codec.decoded.kind = "MultiPolygon"
    /\ Len(codec.decoded.rings) = 2
    /\ codec.decoded.rings[1] = codec.geom.rings[1]
    /\ codec.decoded.rings[2] # codec.geom.rings[2]
    /\ \E n \in 1..Len(codec.geom.rings[1]) : codec.geom.rings[1][n][1] < 0

----------------------------------------------------------------------------
\* the fields of a line that are numbers
NumericFields(line) ==
    {k \in 1..Len(SplitComma(line)) : IsFloat(Strip(SplitComma(line)[k]))}

BlankLine(line) == \A k \in 1..Len(line) : CharAt(line, k) = " "

\* the groups of the text: the longest runs <<i, j>> of lines not blank
Groups(text) ==
    {run \in (1..Len(text)) \X (1..Len(text)) :
        /\ run[1] <= run[2]
        /\ \A k \in run[1]..run[2] : ~BlankLine(text[k])
        /\ (run[1] = 1 \/ BlankLine(text[run[1] - 1]))
        /\ (run[2] = Len(text) \/ BlankLine(text[run[2] + 1]))}

\* the lines of a group that give a point: the first two fields are numbers
PointLines(text, run) ==
    {k \in run[1]..run[2] :
        LET fields == SplitComma(text[k])
            filled == {n \in 1..Len(fields) : ~BlankLine(fields[n])}
        IN  /\ Cardinality(filled) >= 2
            /\ \E n1, n2 \in filled :
                /\ n1 < n2 /\ \A n \in filled : n >= n1 /\ (n = n1 \/ n >= n2)
                /\ n1 \in NumericFields(text[k]) /\ n2 \in NumericFields(text[k])}

Surviving(text) == {run \in Groups(text) : Cardinality(PointLines(text, run)) >= 3}

\* the k-th surviving group, in the order of the text
SurvivingAt(text, k) ==
    CHOOSE run \in Surviving(text) :
        Cardinality({other \in Surviving(text) : other[1] < run[1]}) = k - 1

----------------------------------------------------------------------------
\* the polygons that survive: <<member, position>> of each polygon of a
\* polygonal member of the collection
Survivors(geom) ==
    {at \in (1..Len(geom.geoms)) \X (1..2) :
        /\ geom.geoms[at[1]].kind \in {"Polygon", "MultiPolygon"}
        /\ at[2] <= Len(geom.geoms[at[1]].polys)}

\* a survivor comes before another in the collection
Earlier(a, b) == a[1] < b[1] \/ (a[1] = b[1] /\ a[2] < b[2])

\* the result holds the survivors, each once, in the order of the collection
HoldsSurvivors(geom, result) ==
    /\ Len(result.polys) = Cardinality(Survivors(geom))
    /\ \A at \in Survivors(geom) :
            result.polys[Cardinality({b \in Survivors(geom) : Earlier(b, at)}) + 1]
                = geom.geoms[at[1]].polys[at[2]]

Normalized(geom, result) ==
    /\ geom.kind \in {"Polygon", "MultiPolygon"} => result = geom
    /\ geom.kind = "GeometryCollection" =>
            /\ result.kind = IF Survivors(geom) = {} THEN "None"
                             ELSE IF Cardinality(Survivors(geom)) = 1 THEN "Polygon"
                             ELSE "MultiPolygon"
            /\ HoldsSurvivors(geom, result)

\* C22: in every flow, normalize returns a polygon or multi-polygon unchanged
\* and, for a collection, the polygonal members with multi-polygons
\* flattened: a polygon if one survives, a multi-polygon if several do,
\* absent only if none does.
C22_NormalizeKeepsPolygonalMembers ==
    normalized.flow \in {"Home", "FSA"} => Normalized(normalized.geom, normalized.result)

\* the same for the flow of Home.py alone
C22_HomeNormalizeKeepsPolygonalMembers ==
    normalized.flow = "Home" => Normalized(normalized.geom, normalized.result)

----------------------------------------------------------------------------
\* the preference at the end of the route the form was opened on, once the
\* run is over
LastPref == Vehicles'[last'.r].preferences[Len(Vehicles'[last'.r].preferences)]

\* the run created a preference: the last one holds codes, none of which the
\* route held before
PreferenceCreated ==
    /\ ApplyAccepted
    /\ Len(Vehicles'[last'.r].preferences) > 0
    /\ LastPref.zip # {}
    /\ LastPref.zip \cap zips_in_route(Selected) = {}

\* the zone names of the preferences the created one was added to
Siblings ==
    {Vehicles'[last'.r].preferences[j].zone :
        j \in 1..(Len(Vehicles'[last'.r].preferences) - 1)}

----------------------------------------------------------------------------
\* the run was an addPreference call: codes to add, the zone name left as
\* shown, nothing to remove
AddPreferenceCall ==
    /\ ApplyAccepted
    /\ last'.zip_to_add # {}
    /\ last'.new_zone_name = SelectedPref.zone
    /\ last'.zip_to_remove = {}

\* the codes of the call that the route does not hold yet
NonDuplicates == last'.zip_to_add \ zips_in_route(Selected)

\* C24: when no non-duplicate code of an addPreference call is a code of the
\* shapefile, the preferences of the route are unchanged and a warning is
\* reported; and a preference that a call creates has polygon coordinates.
C24_AddPreferenceNoGeometry ==
    [][/\ (AddPreferenceCall /\ NonDuplicates \cap gdf = {}) =>
            /\ Vehicles'[last'.r].preferences = Selected.preferences
            /\ (last'.no_geometry \/ last'.duplicates # {})
       /\ (AddPreferenceCall /\ NonDuplicates \cap gdf # {}) =>
            /\ PreferenceCreated
            /\ LastPref.polygonCoordinates # {}
            /\ \A j \in 1..Len(Selected.preferences) :
                    Vehicles'[last'.r].preferences[j] = Selected.preferences[j]]_vars

\* an addPreference call with the only code ZZZ, which the shapefile does
\* not hold, was accepted: the warning was reported
C24_Witness ==
    /\ last.op = "apply" /\ last.error = ""
    /\ last.zip_to_add = {"ZZZ"} /\ last.zip_to_remove = {}
    /\ last.duplicates = {}
    /\ last.no_geometry
    /\ last.new_zone_name = Vehicles[last.r].preferences[last.p].zone

----------------------------------------------------------------------------
\* C25: after a renumbering to [new_min, new_max] the document's pattern
\* holds that range, and the number of every renumbered route lies in it.
C25_RenumberedWithinNewRange ==
    [][RemapDone =>
        /\ data'.admissibleRoutePatterns
                = FormatPattern(prefix, last'.new_min, last'.new_max)
        /\ \A i \in 1..Len(Routes(data)) :
                PrefixMatches(prefix, Routes(data)[i].name) =>
                    /\ last'.new_min <= RouteNumberOf(prefix, Routes(data')[i].name)
                    /\ RouteNumberOf(prefix, Routes(data')[i].name) <= last'.new_max]_vars

----------------------------------------------------------------------------
\* the names of the routes of document d are its pattern's prefix followed
\* by a number of its pattern's range
NamesFollowPattern(d) ==
    /\ PatternMatches(d.admissibleRoutePatterns)
    /\ \A i \in 1..Len(Routes(d)) :
        LET pre == PatternPrefixText(d.admissibleRoutePatterns)
            name == Routes(d)[i].name
        IN  /\ RouteNameMatches(pre, name)
            /\ ToInt(PatternMinText(d.admissibleRoutePatterns)) <= RouteNumberOf(pre, name)
            /\ RouteNumberOf(pre, name) <= ToInt(PatternMaxText(d.admissibleRoutePatterns))

\* C27: in every generated document each route name is the prefix of that
\* document's admissibleRoutePatterns followed by a number of its range.
C27_GeneratedNamesFollowPattern ==
    generated.status = "ok" => NamesFollowPattern(json_data)

----------------------------------------------------------------------------
\* C28: every route of a generated configuration has a name that starts with
\* the prefix written to its admissibleRoutePatterns and a number within the
\* range written there.
C28_ConfigNamesFollowPattern ==
    config.generated => NamesFollowPattern(config)

----------------------------------------------------------------------------
\* the step is a renumbering of the generated configuration with a valid range
RemapConfigRun == config.generated /\ config'.remapped \notin {"none", "range"}

\* C26: the renumbering of a configuration whose representative is a boolean
\* completes without error, gives every route a name of the new range and
\* leaves every representative as it was.
C26_RemapOfFlaggedConfigCompletes ==
    [][RemapConfigRun =>
        /\ config'.remapped = "ok"
        /\ Len(Routes(config')) = Len(Routes(config))
        /\ \A i \in 1..Len(Routes(config)) :
                /\ Routes(config')[i].representative = Routes(config)[i].representative
                /\ RouteNameMatches(PatternPrefixText(config'.admissibleRoutePatterns),
                                    Routes(config')[i].name)
        /\ ToInt(PatternMinText(config'.admissibleRoutePatterns))
                = RouteNumberOf(PatternPrefixText(config'.admissibleRoutePatterns),
                                Routes(config')[1].name)]_vars

=============================================================================
